---- MODULE Spec2Model ----
(***************************************************************************)
(* Model of app2.py, the Streamlit QC review assistant.                    *)
(*                                                                         *)
(* A Streamlit program is a script that is run again from the top after    *)
(* every user interaction.  The state is what one run leaves behind: the   *)
(* uploaded file, the values the script computed (df, auditors,            *)
(* filtered_df, case_row, the displayed fields) and the widget values.     *)
(* Each action is one interaction followed by the whole rerun.             *)
(*                                                                         *)
(* Text is modelled as a sequence of code points, so that astype(str),     *)
(* sorted() and the NA parsing of the reader are computed, not assumed.    *)
(***************************************************************************)
EXTENDS Integers, Sequences, FiniteSets, TLC

\* Largest number of data rows of an uploaded file.
MaxRows == 2

(***************************************************************************)
(* 1. Column name configuration                                            *)
(***************************************************************************)
AUDITOR_COL == "auditor"
ADDRESS_ID_COL == "addressid"
WEEK_COL == "week"
PROGRAM_COL == "program"
TRACKING_ID_COL == "trackingid"
PDP_PRE_DP_COL == "pdp_pre_dp_geocodes"
PRE_RE_GEOCODES_COL == "pre_re_geocodes"
AUDITOR_GRAN_DP_COL == "auditor_granularity_dp"
AUDITOR_GRAN_RE_COL == "auditor_granularity_re"
DP_GEOCODES_COL == "dp_geocodes"
RE_GEOCODES_COL == "re_geocodes"
ACTION_TAKEN_COL == "action_taken"
AUDITOR_PRE_TOL_COL == "auditor_pre_tolerance"
AUDITOR_POST_TOL_COL == "post_tolerance"
DP_DISAGREE_COL == "dp_disagreement"
RE_DISAGREE_COL == "re_disagreement"
GF_DISAGREE_COL == "geofence_disagreement"
QC_DP_GRAN_COL == "qc_dp_granularity"
QC_RE_GRAN_COL == "qc_re_granularity"
QC2_DP_COL == "qc2_dp"
QC2_RE_COL == "qc2_re"
QC2_TOL_COL == "qc2_tolerance"
AUDITOR_COMMENT_COL == "auditor_comment"
QC2_COMMENT_COL == "qc2_comment"
QC2_SOURCE_COL == "qc2_source"
QC2_GAM_ISSUE_COL == "qc2_gam_issue"
REASON_DP_COL == "reason_dp_issue"
REASON_RE_COL == "reason_re_issue"
REASON_GF_COL == "reason_geofence_issue"
STATUS_COL == "review_status"

(***************************************************************************)
(* Text literals, as code points.                                          *)
(***************************************************************************)
TxtEmpty == << >>
TxtNA == <<78, 47, 65>>                                   \* "N/A"
TxtPending == <<80, 101, 110, 100, 105, 110, 103>>        \* "Pending"
TxtCompleted == <<67, 111, 109, 112, 108, 101, 116, 101, 100>> \* "Completed"
TxtAll == <<65, 108, 108>>                                \* "All"
TxtNan == <<110, 97, 110>>                                \* "nan"
TxtNone == <<78, 111, 110, 101>>                          \* "None"
TxtDotZero == <<46, 48>>                                  \* ".0"
TxtA == <<65>>                                            \* "A"
Txt7 == <<55>>                                            \* "7"
Txt5 == <<53>>                                            \* "5"

(***************************************************************************)
(* Python / pandas values.  Every value has the same three fields.         *)
(***************************************************************************)
StrV(s) == [k |-> "str", s |-> s, n |-> 0]
IntV(n) == [k |-> "int", s |-> TxtEmpty, n |-> n]
FloatV(n) == [k |-> "float", s |-> TxtEmpty, n |-> n]
NaN == [k |-> "nan", s |-> TxtEmpty, n |-> 0]
None == [k |-> "none", s |-> TxtEmpty, n |-> 0]

\* pd.notna
notna(v) == v.k \notin {"nan", "none"}

Range(q) == {q[i] : i \in 1..Len(q)}

RECURSIVE IntToStr(_)
\* str() of a non-negative integer: its decimal digits.
IntToStr(n) == IF n < 10 THEN <<48 + n>> ELSE IntToStr(n \div 10) \o <<48 + (n % 10)>>

\* str(v), which astype(str) applies to every cell.
Str(v) ==
    CASE v.k = "str" -> v.s
      [] v.k = "int" -> IntToStr(v.n)
      [] v.k = "float" -> IntToStr(v.n) \o TxtDotZero
      [] v.k = "nan" -> TxtNan
      [] OTHER -> TxtNone

RECURSIVE LexLess(_, _)
\* Python's < on str: lexicographic by code point.
LexLess(a, b) ==
    IF a = << >> THEN b # << >>
    ELSE IF b = << >> THEN FALSE
    ELSE IF Head(a) # Head(b) THEN Head(a) < Head(b)
    ELSE LexLess(Tail(a), Tail(b))

(***************************************************************************)
(* The uploaded file: a header and at most MaxRows rows of text cells.     *)
(***************************************************************************)
FileCols == {AUDITOR_COL, ADDRESS_ID_COL, STATUS_COL}

\* The texts a cell of column c may hold in an uploaded file.
CellTexts(c) ==
    CASE c = AUDITOR_COL -> {TxtEmpty, TxtA, Txt7}
      [] c = ADDRESS_ID_COL -> {TxtNA, Txt5}
      [] OTHER -> {TxtEmpty, TxtPending, TxtCompleted}

AllTexts == UNION {CellTexts(c) : c \in FileCols}

RawRows(C) == {r \in [C -> AllTexts] : \A c \in C : r[c] \in CellTexts(c)}

NoFile == [present |-> FALSE, cols |-> {}, rows |-> << >>]

Files ==
    UNION {UNION {{[present |-> TRUE, cols |-> C, rows |-> rs] : rs \in [1..n -> RawRows(C)]}
                  : n \in 0..MaxRows}
           : C \in SUBSET FileCols}

(***************************************************************************)
(* pd.read_csv / pd.read_excel: NA parsing and column type inference.      *)
(***************************************************************************)
\* The reader's default na_values that occur in the model's cells.
NaTexts == {TxtEmpty, TxtNA}

IsDigits(t) == t # << >> /\ \A i \in 1..Len(t) : t[i] \in 48..57

RECURSIVE ParseInt(_)
ParseInt(t) ==
    IF t = << >> THEN 0
    ELSE ParseInt(SubSeq(t, 1, Len(t) - 1)) * 10 + (t[Len(t)] - 48)

\* A column of integers with no hole is int64, with a hole float64; a column
\* with any other text is object (str cells); an all-NA column is float64.
ColumnDtype(f, c) ==
    LET n == Len(f.rows)
        filled == {i \in 1..n : f.rows[i][c] \notin NaTexts}
    IN  IF filled = {} THEN (IF n = 0 THEN "object" ELSE "float64")
        ELSE IF \A i \in filled : IsDigits(f.rows[i][c])
             THEN (IF filled = 1..n THEN "int64" ELSE "float64")
        ELSE "object"

ParseCell(t, dtype) ==
    IF t \in NaTexts THEN NaN
    ELSE CASE dtype = "int64" -> IntV(ParseInt(t))
           [] dtype = "float64" -> FloatV(ParseInt(t))
           [] OTHER -> StrV(t)

\* A data frame: its columns and its rows in file order (row i has index label i).
dfNone == [isNone |-> TRUE, cols |-> {}, rows |-> << >>]

ReadFile(f) ==
    [isNone |-> FALSE,
     cols |-> f.cols,
     rows |-> [i \in 1..Len(f.rows) |->
                 [c \in f.cols |-> ParseCell(f.rows[i][c], ColumnDtype(f, c))]]]

(***************************************************************************)
(* 2. Sidebar: validation, status column, auditor list                     *)
(***************************************************************************)
needed == <<AUDITOR_COL, ADDRESS_ID_COL>>

missing_cols(d) == SelectSeq(needed, LAMBDA c : c \notin d.cols)

\* if STATUS_COL not in df.columns: df[STATUS_COL] = "Pending"
AddStatusCol(d) ==
    IF STATUS_COL \notin d.cols
    THEN [d EXCEPT !.cols = @ \cup {STATUS_COL},
                   !.rows = [i \in 1..Len(d.rows) |->
                               [c \in d.cols \cup {STATUS_COL} |->
                                  IF c = STATUS_COL THEN StrV(TxtPending)
                                  ELSE d.rows[i][c]]]]
    ELSE d

Column(d, c) == [i \in 1..Len(d.rows) |-> d.rows[i][c]]

dropna(col) == SelectSeq(col, notna)

astype_str(col) == [i \in 1..Len(col) |-> StrV(Str(col[i]))]

RECURSIVE unique(_)
\* Series.unique(): the distinct values in order of first appearance.
unique(q) ==
    IF q = << >> THEN << >>
    ELSE LET front == unique(SubSeq(q, 1, Len(q) - 1))
             last == q[Len(q)]
         IN  IF last \in Range(front) THEN front ELSE Append(front, last)

RECURSIVE InsertSorted(_, _)
InsertSorted(q, x) ==
    IF q = << >> THEN <<x>>
    ELSE IF LexLess(x.s, Head(q).s) THEN <<x>> \o q
    ELSE <<Head(q)>> \o InsertSorted(Tail(q), x)

\* Variant of sorted: the list is left in its order of first appearance.
sorted_Unsorted(q) == q

RECURSIVE sorted(_)
\* sorted() of a list of str: ascending, stable.
sorted(q) ==
    IF q = << >> THEN << >>
    ELSE InsertSorted(sorted(SubSeq(q, 1, Len(q) - 1)), q[Len(q)])

\* auditors = sorted(df[AUDITOR_COL].dropna().astype(str).unique())
Auditors(d) == sorted(unique(astype_str(dropna(Column(d, AUDITOR_COL)))))

status_options == <<StrV(TxtAll), StrV(TxtPending), StrV(TxtCompleted)>>

\* st.selectbox: None without options; the first option when the widget is new
\* (its options differ from those of the last run); else the user's choice.
Selectbox(options, prevOptions, prevValue) ==
    IF options = << >> THEN None
    ELSE IF prevOptions = options /\ prevValue \in Range(options) THEN prevValue
    ELSE options[1]

Sidebar(f, W) ==
    IF ~f.present
    THEN [df |-> dfNone, missing |-> << >>, auditors |-> << >>,
          auditor_name |-> None, status_filter |-> None]
    ELSE LET raw == ReadFile(f)
             missing == missing_cols(raw)
         IN  IF missing # << >>
             THEN [df |-> raw, missing |-> missing, auditors |-> << >>,
                   auditor_name |-> None, status_filter |-> None]
             ELSE LET d == AddStatusCol(raw)
                      opts == Auditors(d)
                  IN  [df |-> d, missing |-> missing, auditors |-> opts,
                       auditor_name |-> Selectbox(opts, W.aOpts, W.aVal),
                       status_filter |-> Selectbox(status_options, W.sOpts, W.sVal)]

(***************************************************************************)
(* 3. Main content: filter, summary, cases table, case detail              *)
(***************************************************************************)
\* series == x, element by element: never true for a missing value, for None
\* or across str and number.
PdEq(v, x) ==
    \/ v.k = "str" /\ x.k = "str" /\ v.s = x.s
    \/ v.k \in {"int", "float"} /\ x.k \in {"int", "float"} /\ v.n = x.n

\* filtered_df = df[df[AUDITOR_COL] == auditor_name].copy()
\* frame[mask] keeps the rows (index labels) whose mask is true, in frame order.
FilterAuditor(d, name) ==
    SelectSeq([i \in 1..Len(d.rows) |-> i],
              LAMBDA i : PdEq(d.rows[i][AUDITOR_COL], name))

truthy(v) == v.k # "none" /\ ~(v.k = "str" /\ v.s = << >>)

\* Variant of FilterStatus: the status selection is computed but not assigned.
FilterStatus_NotAssigned(d, idx, sf) == idx

\* if status_filter and status_filter != "All":
\*     filtered_df = filtered_df[filtered_df[STATUS_COL] == status_filter]
FilterStatus(d, idx, sf) ==
    IF truthy(sf) /\ sf # StrV(TxtAll)
    THEN SelectSeq(idx, LAMBDA i : PdEq(d.rows[i][STATUS_COL], sf))
    ELSE idx

FilteredDf(d, name, sf) == FilterStatus(d, FilterAuditor(d, name), sf)

\* Variant of IsEmptyDf: the emptiness test never succeeds.
IsEmptyDf_Never(idx) == FALSE

\* filtered_df.empty
IsEmptyDf(idx) == Len(idx) = 0

CountEq(d, idx, c, x) == Cardinality({i \in Range(idx) : PdEq(d.rows[i][c], x)})

NoSummary == [total_cases |-> 0, pending_cases |-> 0, completed_cases |-> 0]

Summary(d, idx) ==
    [total_cases |-> Len(idx),
     pending_cases |-> CountEq(d, idx, STATUS_COL, StrV(TxtPending)),
     completed_cases |-> CountEq(d, idx, STATUS_COL, StrV(TxtCompleted))]

table_cols ==
    <<ADDRESS_ID_COL, WEEK_COL, PROGRAM_COL, TRACKING_ID_COL, STATUS_COL,
      QC2_RE_COL, DP_DISAGREE_COL, RE_DISAGREE_COL, GF_DISAGREE_COL>>

\* The fallback to all columns (lines 174-175) needs an empty selection, which
\* cannot happen here: the table is reached only with addressid present.
ShowCols(d) == SelectSeq(table_cols, LAMBDA c : c \in d.cols)

\* Variant of CaseIds: the ids of the whole data frame, not of the filtered rows.
CaseIds_OfDf(d, idx) ==
    [j \in 1..Len(d.rows) |-> StrV(Str(d.rows[j][ADDRESS_ID_COL]))]

\* case_ids = filtered_df[ADDRESS_ID_COL].astype(str).tolist()
CaseIds(d, idx) == [j \in 1..Len(idx) |-> StrV(Str(d.rows[idx[j]][ADDRESS_ID_COL]))]

\* filtered_df[filtered_df[ADDRESS_ID_COL].astype(str) == selected_case_id]
CaseMatches(d, idx, sel) ==
    SelectSeq(idx, LAMBDA i : PdEq(StrV(Str(d.rows[i][ADDRESS_ID_COL])), sel))

\* Variant of CaseRow: the last match instead of the first.
CaseRow_Last(d, idx, sel) ==
    LET m == CaseMatches(d, idx, sel)
    IN  IF m = << >> THEN 0 ELSE m[Len(m)]

\* .iloc[0] of the matches; 0 stands for the IndexError of an empty selection.
CaseRow(d, idx, sel) ==
    LET m == CaseMatches(d, idx, sel)
    IN  IF m = << >> THEN 0 ELSE m[1]

\* def get_val(row, col_name, default="N/A")
get_val(row, col_name, default) ==
    IF col_name \in DOMAIN row /\ notna(row[col_name]) THEN row[col_name] ELSE default

\* Every column the case detail tab reads.
display_cols ==
    {ADDRESS_ID_COL, AUDITOR_COL, WEEK_COL, PROGRAM_COL, TRACKING_ID_COL, STATUS_COL,
     PDP_PRE_DP_COL, DP_GEOCODES_COL, AUDITOR_GRAN_DP_COL, QC_DP_GRAN_COL, QC2_DP_COL,
     DP_DISAGREE_COL, REASON_DP_COL, ACTION_TAKEN_COL,
     PRE_RE_GEOCODES_COL, RE_GEOCODES_COL, AUDITOR_GRAN_RE_COL, QC_RE_GRAN_COL,
     QC2_RE_COL, RE_DISAGREE_COL, REASON_RE_COL,
     AUDITOR_PRE_TOL_COL, AUDITOR_POST_TOL_COL, QC2_TOL_COL, GF_DISAGREE_COL,
     REASON_GF_COL, AUDITOR_COMMENT_COL, QC2_COMMENT_COL, QC2_SOURCE_COL,
     QC2_GAM_ISSUE_COL}

\* The default each display call passes: 'Pending' for the status, "N/A" otherwise.
DisplayDefault(c) == IF c = STATUS_COL THEN StrV(TxtPending) ELSE StrV(TxtNA)

\* What the case detail tab shows for case_row, per column.
Display(row) == [c \in display_cols |-> get_val(row, c, DisplayDefault(c))]

NoDisplay == [c \in display_cols |-> None]

decisions == <<"Agree with QC", "Appeal">>

NoteTexts == {"", "appeal text"}

\* st.radio: the first option until the user chooses.
Radio(options, prev) == IF prev \in Range(options) THEN prev ELSE options[1]

NoMsg == [case |-> None, decision |-> "", appeal_text |-> ""]

\* if st.button("Save decision for this case"): success message, and for an
\* appeal the notes.
SaveMessage(sel, decision, notes) ==
    [case |-> sel, decision |-> decision,
     appeal_text |-> IF decision = "Appeal" THEN notes ELSE ""]

\* Variant of SaveDecisionDf: the save branch marks the case as completed.
SaveDecisionDf_MarksCompleted(d, row, decision) ==
    [d EXCEPT !.rows[row][STATUS_COL] = StrV(TxtCompleted)]

\* The data frame after the save branch: the branch only writes messages.
SaveDecisionDf(d, row, decision) == d

\* The case detail tab.
Detail(d, idx, W) ==
    LET ids == CaseIds(d, idx)
        sel == Selectbox(ids, W.cOpts, W.cVal)
        row == CaseRow(d, idx, sel)
    IN  IF row = 0
        THEN [pc |-> "IndexError", case_ids |-> ids, selected_case_id |-> sel,
              case_row |-> 0, shown |-> NoDisplay, decision |-> "",
              saved_msg |-> NoMsg, df |-> d]
        ELSE LET dec == Radio(decisions, W.decision)
             IN  [pc |-> "done", case_ids |-> ids, selected_case_id |-> sel,
                  case_row |-> row, shown |-> Display(d.rows[row]),
                  decision |-> dec,
                  saved_msg |-> IF W.clicked THEN SaveMessage(sel, dec, W.notes)
                                ELSE NoMsg,
                  df |-> IF W.clicked THEN SaveDecisionDf(d, row, dec) ELSE d]

NoDetail(pc, d) ==
    [pc |-> pc, case_ids |-> << >>, selected_case_id |-> None, case_row |-> 0,
     shown |-> NoDisplay, decision |-> "", saved_msg |-> NoMsg, df |-> d]

\* One run of the script below the sidebar, given the sidebar's results sb.
Main(sb, W) ==
    LET d == sb.df
    IN  IF d.isNone
        THEN [filter_step |-> "skipped", filtered_df |-> << >>,
              rendered |-> {"upload_info"}, summary |-> NoSummary,
              show_cols |-> << >>, detail |-> NoDetail("done", d)]
        ELSE IF AUDITOR_COL \notin d.cols
        THEN [filter_step |-> "raised", filtered_df |-> << >>,
              rendered |-> {}, summary |-> NoSummary,
              show_cols |-> << >>, detail |-> NoDetail("KeyError", d)]
        ELSE LET idx == FilteredDf(d, sb.auditor_name, sb.status_filter)
             IN  IF IsEmptyDf(idx)
                 THEN [filter_step |-> "done", filtered_df |-> idx,
                       rendered |-> {"no_cases_warning"}, summary |-> NoSummary,
                       show_cols |-> << >>, detail |-> NoDetail("stopped", d)]
                 ELSE [filter_step |-> "done", filtered_df |-> idx,
                       rendered |-> {"summary", "cases_table", "case_detail"},
                       summary |-> Summary(d, idx),
                       show_cols |-> ShowCols(d),
                       detail |-> Detail(d, idx, W)]

(***************************************************************************)
(* State                                                                   *)
(***************************************************************************)
VARIABLES
    uploaded_file,      \* the file in the uploader, or NoFile
    df,                 \* the data frame of the last run, or dfNone
    missing,            \* the essential columns reported missing
    auditors,           \* options of the auditor selectbox
    auditor_name,       \* its value
    status_filter,      \* value of the status selectbox
    filter_step,        \* "skipped", "raised" or "done": line 122 in the last run
    filtered_df,        \* index labels of the filtered rows, in order
    rendered,           \* the messages and tabs the main content rendered
    summary,            \* the three metrics
    show_cols,          \* columns of the cases table
    case_ids,           \* options of the case selectbox
    selected_case_id,   \* its value
    case_row,           \* index label of the row shown in case detail, or 0
    shown,              \* the value displayed per column
    decision,           \* value of the radio
    saved_msg,          \* what the save branch wrote
    pc                  \* how the run ended: "done", "stopped", "KeyError", "IndexError"

vars ==
    <<uploaded_file, df, missing, auditors, auditor_name, status_filter, filter_step,
      filtered_df, rendered, summary, show_cols, case_ids, selected_case_id, case_row,
      shown, decision, saved_msg, pc>>

\* The widget values the next run starts from.  The text area's content is
\* read only by the save branch, so it is an input of the run of a click.
Widgets ==
    [aOpts |-> auditors, aVal |-> auditor_name,
     sOpts |-> IF status_filter = None THEN << >> ELSE status_options,
     sVal |-> status_filter,
     cOpts |-> case_ids, cVal |-> selected_case_id,
     decision |-> decision, notes |-> "", clicked |-> FALSE]

NoWidgets ==
    [aOpts |-> << >>, aVal |-> None, sOpts |-> << >>, sVal |-> None,
     cOpts |-> << >>, cVal |-> None, decision |-> "", notes |-> "", clicked |-> FALSE]

\* The state one run of the whole script leaves, as a record.
Outcome(f, sb, m) ==
    [uploaded_file |-> f, df |-> m.detail.df, missing |-> sb.missing,
     auditors |-> sb.auditors, auditor_name |-> sb.auditor_name,
     status_filter |-> sb.status_filter, filter_step |-> m.filter_step,
     filtered_df |-> m.filtered_df,
     rendered |-> m.rendered \cup
                  (IF sb.missing # << >> THEN {"schema_error"} ELSE {}) \cup
                  (IF m.detail.saved_msg # NoMsg THEN {"saved"} ELSE {}),
     summary |-> m.summary, show_cols |-> m.show_cols,
     case_ids |-> m.detail.case_ids,
     selected_case_id |-> m.detail.selected_case_id,
     case_row |-> m.detail.case_row, shown |-> m.detail.shown,
     decision |-> m.detail.decision,
     saved_msg |-> m.detail.saved_msg, pc |-> m.detail.pc]

MainOutcome(f, sb, W) == Outcome(f, sb, Main(sb, W))

Script(f, W) == MainOutcome(f, Sidebar(f, W), W)

StateIs(r) ==
    /\ uploaded_file = r.uploaded_file /\ df = r.df /\ missing = r.missing
    /\ auditors = r.auditors /\ auditor_name = r.auditor_name
    /\ status_filter = r.status_filter /\ filter_step = r.filter_step
    /\ filtered_df = r.filtered_df /\ rendered = r.rendered /\ summary = r.summary
    /\ show_cols = r.show_cols /\ case_ids = r.case_ids
    /\ selected_case_id = r.selected_case_id /\ case_row = r.case_row
    /\ shown = r.shown /\ decision = r.decision
    /\ saved_msg = r.saved_msg /\ pc = r.pc

Rerun(f, W) ==
    \E r \in {Script(f, W)} :
        /\ uploaded_file' = r.uploaded_file /\ df' = r.df /\ missing' = r.missing
        /\ auditors' = r.auditors /\ auditor_name' = r.auditor_name
        /\ status_filter' = r.status_filter /\ filter_step' = r.filter_step
        /\ filtered_df' = r.filtered_df /\ rendered' = r.rendered
        /\ summary' = r.summary /\ show_cols' = r.show_cols
        /\ case_ids' = r.case_ids /\ selected_case_id' = r.selected_case_id
        /\ case_row' = r.case_row /\ shown' = r.shown /\ decision' = r.decision
        /\ saved_msg' = r.saved_msg /\ pc' = r.pc

\* The first run: nothing uploaded yet.
Init == \E r \in {Script(NoFile, NoWidgets)} : StateIs(r)

(***************************************************************************)
(* Interactions                                                            *)
(***************************************************************************)
\* The user puts a file into the empty uploader.
Upload == ~uploaded_file.present /\ \E f \in Files : Rerun(f, Widgets)

\* The user removes the file from the uploader.
ClearFile == uploaded_file.present /\ Rerun(NoFile, Widgets)

SelectAuditor ==
    \E a \in Range(auditors) :
        a # auditor_name /\ Rerun(uploaded_file, [Widgets EXCEPT !.aVal = a])

SelectStatus ==
    /\ status_filter # None
    /\ \E s \in Range(status_options) :
           s # status_filter /\ Rerun(uploaded_file, [Widgets EXCEPT !.sVal = s])

DetailShown == "case_detail" \in rendered /\ pc = "done"

SelectCase ==
    /\ DetailShown
    /\ \E c \in Range(case_ids) :
           c # selected_case_id /\ Rerun(uploaded_file, [Widgets EXCEPT !.cVal = c])

ChooseDecision ==
    /\ DetailShown
    /\ \E dec \in Range(decisions) :
           dec # decision /\ Rerun(uploaded_file, [Widgets EXCEPT !.decision = dec])

\* The user clicks "Save decision for this case".
SaveDecision ==
    /\ DetailShown
    /\ \E n \in NoteTexts :
           Rerun(uploaded_file, [Widgets EXCEPT !.clicked = TRUE, !.notes = n])

Next ==
    \/ Upload
    \/ ClearFile
    \/ SelectAuditor
    \/ SelectStatus
    \/ SelectCase
    \/ ChooseDecision
    \/ SaveDecision

Spec == Init /\ [][Next]_vars

(***************************************************************************)
(* Properties                                                              *)
(***************************************************************************)
Loaded == uploaded_file.present /\ missing = << >>

MainTabs == {"summary", "cases_table", "case_detail"}

Rows == 1..Len(df.rows)

\* Row i of the upload carries no status: no such column, or an NA cell.
LacksStatus(i) ==
    \/ STATUS_COL \notin uploaded_file.cols
    \/ uploaded_file.rows[i][STATUS_COL] \in NaTexts

\* C1: after a successful load every row that had no status value in the
\* input, the column missing or the cell empty, has status "Pending".
C1_MissingStatusIsPending ==
    Loaded => \A i \in Rows : LacksStatus(i) => df.rows[i][STATUS_COL] = StrV(TxtPending)

\* C2: an upload lacking the auditor or the address-id column ends in the
\* schema error, leaves no data frame and runs no filter, summary or detail.
C2_SchemaErrorBlocksLoad ==
    (uploaded_file.present /\ ~({AUDITOR_COL, ADDRESS_ID_COL} \subseteq uploaded_file.cols))
        => /\ "schema_error" \in rendered
           /\ df.isNone
           /\ filter_step = "skipped"
           /\ rendered \cap MainTabs = {}

\* C3: every field the case detail shows is "N/A" exactly when the column is
\* absent from the record or its value is null, and the stored value otherwise;
\* the status field included.
C3_SentinelIffAbsentOrNull ==
    DetailShown =>
        \A c \in display_cols :
            LET row == df.rows[case_row]
                lacking == c \notin DOMAIN row \/ ~notna(row[c])
            IN  /\ (shown[c] = StrV(TxtNA)) <=> lacking
                /\ ~lacking => shown[c] = row[c]

\* Auditor names and status choices a filter may be asked for.
AuditorChoices ==
    Range(auditors) \cup {StrV(TxtA), StrV(Txt7), StrV(Txt5), StrV(TxtNan), None}

StatusChoices ==
    IF STATUS_COL \in df.cols THEN Range(status_options) \cup {None} ELSE {StrV(TxtAll), None}

Ascending(idx) == \A i, j \in 1..Len(idx) : i < j => idx[i] < idx[j]

\* The rows a filter for auditor a and status choice s is to return.
Wanted(a, s) ==
    {i \in Rows : /\ df.rows[i][AUDITOR_COL] = a
                  /\ (s \in {None, StrV(TxtAll)} \/ df.rows[i][STATUS_COL] = s)}

\* C4: for every auditor a and status choice s the filter returns exactly the
\* loaded rows of auditor a (and of status s, unless all are shown), in load
\* order; the empty sequence when nothing matches.  The rows the last run
\* filtered are those of the selected auditor and status.
C4_FilterExact ==
    (~df.isNone /\ AUDITOR_COL \in df.cols) =>
        /\ \A a \in AuditorChoices, s \in StatusChoices :
              LET r == FilteredDf(df, a, s)
              IN  Ascending(r) /\ Range(r) = Wanted(a, s)
        /\ Ascending(filtered_df)
        /\ Range(filtered_df) = Wanted(auditor_name, status_filter)

C4_Witness ==
    /\ Loaded
    /\ Len(df.rows) = 2
    /\ status_filter = StrV(TxtPending)
    /\ df.rows[1][AUDITOR_COL] = auditor_name
    /\ df.rows[1][STATUS_COL] = StrV(TxtCompleted)
    /\ filtered_df = <<2>>

NonNullAuditors == {v \in Range(Column(df, AUDITOR_COL)) : notna(v)}

StrictlySorted(q) == \A i, j \in 1..Len(q) : i < j => LexLess(q[i].s, q[j].s)

\* C5 as stated: the auditor list holds the non-null auditor values, each
\* once, in sorted order.
C5_AuditorsAreStoredValues ==
    Loaded => Range(auditors) = NonNullAuditors /\ StrictlySorted(auditors)

\* C5 amended: the auditor list holds the string forms of the non-null auditor
\* values, each once, in ascending order of the strings; it is empty when there
\* is no row or no non-null auditor.
C5_AuditorsAreStringForms ==
    Loaded =>
        /\ Range(auditors) = {StrV(Str(v)) : v \in NonNullAuditors}
        /\ StrictlySorted(auditors)
        /\ (NonNullAuditors = {} => auditors = << >>)

C5_Witness ==
    /\ Loaded
    /\ Len(df.rows) = 2
    /\ df.rows[1][AUDITOR_COL] = StrV(TxtA)
    /\ df.rows[2][AUDITOR_COL] = StrV(Txt7)
    /\ auditors = <<StrV(Txt7), StrV(TxtA)>>

\* C6: an empty filter result ends the run in the "no matching cases" message:
\* nothing is raised, and the summary, the cases table and the case detail are
\* skipped.
C6_EmptyFilterStops ==
    (filter_step = "done" /\ filtered_df = << >>) =>
        /\ pc = "stopped"
        /\ "no_cases_warning" \in rendered
        /\ rendered \cap MainTabs = {}
        /\ summary = NoSummary
        /\ case_ids = << >>
        /\ case_row = 0

C6_Witness ==
    /\ Loaded
    /\ auditor_name = StrV(TxtA)
    /\ status_filter = StrV(TxtCompleted)
    /\ filter_step = "done"
    /\ filtered_df = << >>
    /\ pc = "stopped"

\* C7: the run of a save click leaves the data frame as it was, for either
\* decision and any notes, and with it the filtered rows, the case shown, every
\* displayed field and the result of every filter.
C7_SaveLeavesDataUnchanged ==
    [][("saved" \in rendered') =>
          /\ df' = df
          /\ filtered_df' = filtered_df
          /\ case_row' = case_row
          /\ shown' = shown
          /\ summary' = summary
          /\ auditors' = auditors]_vars

C7_Witness ==
    /\ "saved" \in rendered
    /\ saved_msg.decision = "Appeal"
    /\ saved_msg.appeal_text = "appeal text"
    /\ df.rows[case_row][STATUS_COL] = StrV(TxtPending)

AddressText(i) == Str(df.rows[i][ADDRESS_ID_COL])

\* C8: when several filtered rows have the same address id text, the case
\* detail shows the first of them in load order.
C8_FirstMatchWins ==
    DetailShown =>
        /\ case_row \in Range(filtered_df)
        /\ AddressText(case_row) = selected_case_id.s
        /\ \A i \in Range(filtered_df) :
              AddressText(i) = selected_case_id.s => case_row <= i

C8_Witness ==
    /\ DetailShown
    /\ \E i \in Range(filtered_df) :
          i > case_row /\ AddressText(i) = AddressText(case_row)

\* C9: every auditor offered in the selection list has at least one row under
\* the auditor filter with status "All".
C9_OfferedAuditorHasRows ==
    Loaded => \A a \in Range(auditors) : FilteredDf(df, a, StrV(TxtAll)) # << >>

\* C10: whenever the case detail is reached the filtered rows are not empty,
\* the selected id is the id of one of them, taking the first match does not
\* fail, and the row shown has the selected auditor and passes the status
\* filter.
C10_DetailRowIsFiltered ==
    ("case_detail" \in rendered) =>
        /\ filtered_df # << >>
        /\ \E i \in Range(filtered_df) : AddressText(i) = selected_case_id.s
        /\ pc = "done"
        /\ case_row \in Range(filtered_df)
        /\ df.rows[case_row][AUDITOR_COL] = auditor_name
        /\ (status_filter = StrV(TxtAll) \/ df.rows[case_row][STATUS_COL] = status_filter)

C10_Witness ==
    /\ DetailShown
    /\ status_filter = StrV(TxtCompleted)
    /\ Len(df.rows) = 2
    /\ filtered_df = <<2>>
    /\ case_row = 2

====
